---- MODULE Spec2Model ----
(***************************************************************************)
(* A model of the loom runtime: an M:N scheduler that multiplexes          *)
(* coroutines ("fibers") onto worker threads and preempts them with        *)
(* SIGURG.  The threads of the program are the callers of                  *)
(* runtime_schedule (spawn), the monitor thread (loom_monitor_process)     *)
(* and the worker threads (loom_working_thread_main / thread_schedule /    *)
(* sigurg_handler).  Every thread has a program counter; one action is one *)
(* step of one thread between two points at which another thread can       *)
(* observe it.                                                              *)
(***************************************************************************)
EXTENDS Integers, Sequences, FiniteSets, TLC

(* ------------------------------ bounds -------------------------------- *)

\* number of runtime_schedule calls made in a run with a monitor and workers
MaxFibers == 2
\* number of runtime_schedule calls made in a run of spawning threads alone
MaxSpawns == 3
\* largest worker pool size explored (WORKING_THREADS_COUNT of the build)
MaxWorkers == 2
\* number of threads calling runtime_schedule concurrently
NSpawners == 3
\* cap of a worker's idle semaphore count
MaxSem == 1
\* number of fibers whose entry function returns in a run of the build's own
\* pool (WORKING_THREADS_COUNT workers), and in a run of a larger pool
MaxReturns == 2
PoolReturns == 0
\* length of the loop a fiber's entry function runs
UserLen == 1
\* register values are kept modulo RegMod
RegMod == 4
\* number of runtime_schedule calls in a run of the spawner and the monitor
\* before the worker threads are scheduled
DispatchFibers == 4
\* a coroutine_queue_t exercised on its own: the number of operations applied
\* to it, of node addresses the allocator hands out, of distinct fibers
MaxOps == 6
QueueNodes == 4
QueueFibers == 2
\* longest local queue handed to scheduler_get_first_runnable on its own
PickLen == 5

(* ------------------------- program constants -------------------------- *)

REGISTERS_COUNT == 31
DEFAULT_COROUTINE_STACK_SIZE == 16384
WORKING_THREADS_COUNT == 1

cs_created == 0
cs_runnable == 1
cs_running == 2
cs_syscall == 3
cs_waiting == 4
cs_done == 5

ts_created == 0
ts_idle == 1
ts_running == 2
ts_scheduling == 3
ts_syscall == 4
ts_dead == 5

\* the null pointer
NULL == 0

(* ------------------------------ state --------------------------------- *)

VARIABLES
    nw,        \* size of the worker pool (working_threads array)
    ns,        \* number of threads that call runtime_schedule
    rets,      \* number of spawned entry functions that return (the others
               \* loop forever, as the workloads of main.c do)
    calls,     \* number of runtime_schedule calls the program makes
    nfib,      \* number of coroutine_t objects allocated so far
    nret,      \* number of entry functions that have returned so far
    cstate,    \* coroutine->state of every allocated coroutine
    regs,      \* coroutine->context->registers of every allocated coroutine
    freed,     \* coroutines passed to coroutine_free
    uaf,       \* a freed coroutine was written through a dangling pointer
    crash,     \* "none", or the fatal error that ended the process
    gq,        \* loom_runtime->global_queue
    glock,     \* owner of loom_runtime->queue_lock: 0, a spawner or MonitorId
    lq,        \* thread->scheduler->local_queue of every worker
    llock,     \* thread->queue_lock: "free", or "worker" while the worker
               \* thread holds it (the monitor holds it within one step)
    current,   \* thread->scheduler->current
    tstate,    \* thread->state
    sem,       \* count of thread->idle_semaphore
    blocked,   \* SIGURG is in the worker thread's signal mask
    pending,   \* SIGURG is pending on the worker thread
    expired,   \* the worker is ts_running and now_ns() - time_quant_start
               \* exceeds m_milliseconds(20) (read only while ts_running)
    wpc,       \* where the worker thread executes
    pi,        \* loop counter i of scheduler_get_first_runnable
    pcor,      \* local variable coroutine of scheduler_get_first_runnable
    mach,      \* the worker CPU's registers while it executes fiber code
    mpc,       \* where the monitor thread executes
    mi,        \* loop counter i of loom_monitor_process
    mj,        \* loop counter i of recycle_global_queue
    last,      \* last_received_work_thread
    spc,       \* where every spawner thread executes
    sfib,      \* local variable coroutine of runtime_schedule
    slast,     \* the queue as coroutine_queue_append read it (size, last)
    hq,        \* a coroutine_queue_t and the coroutine_queue_node_t objects
               \* it links, as they lie in memory
    hlog       \* the operations applied to hq so far

vars == << nw, ns, rets, calls, nfib, nret, cstate, regs, freed, uaf, crash, gq, glock, lq, llock,
           current, tstate, sem, blocked, pending, expired, wpc, pi, pcor,
           mach, mpc, mi, mj, last, spc, sfib, slast, hq, hlog >>

fiberVars == << nfib, nret, cstate, regs, freed, uaf >>
globalVars == << gq, glock >>
workerVars == << lq, llock, current, tstate, sem, blocked, pending, expired,
                 wpc, pi, pcor, mach >>
monitorVars == << mpc, mi, mj, last >>
spawnVars == << spc, sfib, slast >>
configVars == << nw, ns, rets, calls >>
queueVars == << hq, hlog >>

Workers == 0 .. (nw - 1)
WorkerSlots == 0 .. (MaxWorkers - 1)
Spawners == 1 .. ns
SpawnerSlots == 1 .. NSpawners
Fibers == 1 .. nfib

(* --------------------------- register files --------------------------- *)

\* code addresses: the runtime's own code, the epilogue, the entry function
RuntimeLabels == << "main0", "main1", "wait", "ts0", "ts_lock", "pick",
                    "pick_free", "pick_clr", "ts_unlock", "idle1", "dispatch",
                    "unblock", "restore" >>
EpiPc == Len(RuntimeLabels) + 1
FuncPc == EpiPc + 1

RECURSIVE IndexOf(_, _, _)
IndexOf(s, x, i) == IF i > Len(s) THEN 0
                    ELSE IF s[i] = x THEN i ELSE IndexOf(s, x, i + 1)

Addr(label) == IndexOf(RuntimeLabels, label, 1)

LabelOf(pc) == IF pc >= FuncPc THEN "run"
               ELSE IF pc = EpiPc THEN "epi"
               ELSE RuntimeLabels[pc]

RegIdx == 0 .. (REGISTERS_COUNT - 1)

ZeroRegs == [r |-> [i \in RegIdx |-> 0], sp |-> 0, pc |-> 0]

\* the registers of a worker thread interrupted inside the runtime's own code
RuntimeRegs(w, label) ==
    [r |-> [i \in RegIdx |-> 0], sp |-> w + 1, pc |-> Addr(label)]

\* the address one past a fiber's private stack
StackTop(f) == (f + 1) * DEFAULT_COROUTINE_STACK_SIZE

\* coroutine_context_create + coroutine_context_copy_args with one 8-byte
\* argument: memory is zeroed, sp is the stack's end, pc the entry function,
\* r[0] the argument
EntryRegs(f, arg) ==
    [r |-> [i \in RegIdx |-> IF i = 0 THEN arg % RegMod ELSE 0],
     sp |-> StackTop(f),
     pc |-> FuncPc]

\* one step of the fiber's entry function, a loop over UserLen code
\* addresses: the registers hold values that depend on the code address, the
\* register and the fiber
NextUserPc(pc) == IF pc >= FuncPc + UserLen THEN FuncPc + 1 ELSE pc + 1

UserStep(R) ==
    [r |-> [i \in RegIdx |->
               ((R.sp \div DEFAULT_COROUTINE_STACK_SIZE) + NextUserPc(R.pc) + i)
                   % RegMod],
     sp |-> R.sp,
     pc |-> NextUserPc(R.pc)]

\* the fiber's registers once it has entered the epilogue
EpilogueRegs(R) == [R EXCEPT !.pc = EpiPc]

\* the interrupted thread state the kernel hands to the signal handler
ThreadState64(R) ==
    [x |-> [i \in 0 .. 28 |-> R.r[i]], fp |-> R.r[29], lr |-> R.r[30],
     sp |-> R.sp, pc |-> R.pc]

copy_current_ucontext(ss) ==
    [r |-> [i \in RegIdx |-> IF i < 29 THEN ss.x[i]
                             ELSE IF i = 29 THEN ss.fp ELSE ss.lr],
     sp |-> ss.sp,
     pc |-> ss.pc]

(* ------------------------------- queues ------------------------------- *)

\* faulty variants of the queue operations: an append that links the new node
\* at the head, a popleft that leaves the head, a reenqueue that does not
\* rotate
QueuePrepend(q, c) == << c >> \o q

QueueKeep(q) == q

QueueStay(q) == q

coroutine_queue_append(q, c) == Append(q, c)

coroutine_queue_popleft(q) == Tail(q)

coroutine_queue_reenqueue(q) ==
    IF Len(q) <= 1 THEN q ELSE Append(Tail(q), Head(q))

InQueue(q, c) == \E k \in 1 .. Len(q) : q[k] = c

Occurrences(q, c) == Cardinality({k \in 1 .. Len(q) : q[k] = c})

(* --------------------- queues as linked nodes ------------------------- *)

\* the addresses of coroutine_queue_node_t objects; 0 is the null pointer
Nodes == 1 .. QueueNodes

\* coroutine_queue_init: first = 0, last = 0, size = 0; no node is allocated
coroutine_queue_init ==
    [first |-> NULL, last |-> NULL, size |-> 0,
     next |-> [n \in 0 .. QueueNodes |-> NULL],
     cor |-> [n \in 0 .. QueueNodes |-> NULL],
     live |-> {}]

\* coroutine_queue_node_new(last, coroutine) when sigblock_malloc returns the
\* zeroed block at address n: the node holds the fiber, its next is 0, and
\* the previous last node, if any, is linked to it
coroutine_queue_node_new(Q, n, last_node, c) ==
    [Q EXCEPT !.cor = [@ EXCEPT ![n] = c],
              !.next = [m \in 0 .. QueueNodes |->
                            IF m = n THEN NULL
                            ELSE IF m = last_node /\ last_node # NULL THEN n
                            ELSE Q.next[m]],
              !.live = @ \cup {n}]

\* a faulty append that makes every new node the first node
ListAppendAsFirst(Q, n, c) ==
    [coroutine_queue_node_new(Q, n, Q.last, c) EXCEPT
         !.last = n, !.first = n, !.size = Q.size + 1]

\* coroutine_queue_append on the linked nodes
list_queue_append(Q, n, c) ==
    LET pre_insert_size == Q.size
        N == coroutine_queue_node_new(Q, n, Q.last, c)
    IN  [N EXCEPT !.last = n,
                  !.first = IF pre_insert_size = 0 THEN n ELSE Q.first,
                  !.size = Q.size + 1]

\* a faulty popleft that leaves last pointing to the freed node when the
\* queue becomes empty
ListPopleftKeepsLast(Q) ==
    [Q EXCEPT !.first = Q.next[Q.first],
              !.size = Q.size - 1,
              !.live = @ \ {Q.first}]

\* coroutine_queue_popleft on the linked nodes (size > 0): the first node is
\* unlinked and freed; the call returns that node's fiber
list_queue_popleft(Q) ==
    LET first_node == Q.first
    IN  [Q EXCEPT !.first = Q.next[first_node],
                  !.size = Q.size - 1,
                  !.last = IF Q.size - 1 = 0 THEN NULL ELSE Q.last,
                  !.live = @ \ {first_node}]

list_queue_popleft_result(Q) == Q.cor[Q.first]

\* a faulty reenqueue that makes the second node the first one and forgets to
\* link the old first node behind the last
ListReenqueueUnlinked(Q) ==
    IF Q.size <= 1 THEN Q
    ELSE [Q EXCEPT !.next = [@ EXCEPT ![Q.first] = NULL],
                   !.last = Q.first,
                   !.first = Q.next[Q.first]]

\* coroutine_queue_reenqueue on the linked nodes
list_queue_reenqueue(Q) ==
    IF Q.size = 0 THEN Q
    ELSE IF Q.size = 1 THEN Q
    ELSE LET new_first == Q.next[Q.first]
         IN  [Q EXCEPT !.next = [m \in 0 .. QueueNodes |->
                                     IF m = Q.last THEN Q.first
                                     ELSE IF m = Q.first THEN NULL
                                     ELSE Q.next[m]],
                       !.last = Q.first,
                       !.first = new_first]

\* the fibers a traversal from node n finds in k steps along next
RECURSIVE Walk(_, _, _)
Walk(Q, n, k) ==
    IF k = 0 THEN << >> ELSE << Q.cor[n] >> \o Walk(Q, Q.next[n], k - 1)

\* the fibers of the queue from first, size nodes along next
Contents(Q) == Walk(Q, Q.first, Q.size)

(* -------------------------------- Init -------------------------------- *)

MonitorId == NSpawners + 1

\* the state loom_runtime_init and thread_init leave, for a program with the
\* given pool size, spawning threads, returning entry functions and spawns
Start(workers, spawners, returning, spawns) ==
    /\ nw = workers
    /\ ns = spawners
    /\ rets = returning
    /\ calls = spawns
    /\ nfib = 0
    /\ nret = 0
    /\ cstate = << >>
    /\ regs = << >>
    /\ freed = {}
    /\ uaf = FALSE
    /\ crash = "none"
    /\ gq = << >>
    /\ glock = 0
    /\ lq = [w \in WorkerSlots |-> << >>]
    /\ llock = [w \in WorkerSlots |-> "free"]
    /\ current = [w \in WorkerSlots |-> NULL]
    /\ tstate = [w \in WorkerSlots |-> ts_created]
    /\ sem = [w \in WorkerSlots |-> 0]
    /\ blocked = [w \in WorkerSlots |-> FALSE]
    /\ pending = [w \in WorkerSlots |-> FALSE]
    /\ expired = [w \in WorkerSlots |-> FALSE]
    /\ wpc = [w \in WorkerSlots |-> IF w < nw THEN "main0" ELSE "off"]
    /\ pi = [w \in WorkerSlots |-> 0]
    /\ pcor = [w \in WorkerSlots |-> NULL]
    /\ mach = [w \in WorkerSlots |-> ZeroRegs]
    /\ mpc = "sleep"
    /\ mi = 0
    /\ mj = 0
    /\ last = nw - 1
    /\ spc = [s \in SpawnerSlots |-> "idle"]
    /\ sfib = [s \in SpawnerSlots |-> NULL]
    /\ slast = [s \in SpawnerSlots |-> << >>]
    /\ hq = coroutine_queue_init
    /\ hlog = << >>

Init ==
    \E n \in 1 .. MaxWorkers :
        Start(n, 1, IF n = WORKING_THREADS_COUNT THEN MaxReturns
                                                 ELSE PoolReturns, MaxFibers)

(* ------------------------ spawn: runtime_schedule ---------------------- *)

\* sigurg_block; coroutine_create
SpawnCreate(s) ==
    /\ crash = "none"
    /\ s \in Spawners
    /\ spc[s] = "idle"
    /\ nfib < calls
    /\ nfib' = nfib + 1
    /\ cstate' = Append(cstate, cs_created)
    /\ regs' = Append(regs, EntryRegs(nfib + 1, nfib + 1))
    /\ sfib' = [sfib EXCEPT ![s] = nfib + 1]
    /\ spc' = [spc EXCEPT ![s] = "lock"]
    /\ UNCHANGED << configVars, queueVars, nret, freed, uaf, crash, globalVars,
                    workerVars, monitorVars, slast >>

\* a faulty mutex that never makes a caller wait
LockAlwaysFree == TRUE

\* pthread_mutex_lock(&loom_runtime->queue_lock) returns
GlobalLockFree == glock = 0

\* pthread_mutex_lock; coroutine_queue_append reads the queue's size and last
SpawnLock(s) ==
    /\ crash = "none"
    /\ s \in Spawners
    /\ spc[s] = "lock"
    /\ GlobalLockFree
    /\ glock' = s
    /\ slast' = [slast EXCEPT ![s] = gq]
    /\ spc' = [spc EXCEPT ![s] = "append"]
    /\ UNCHANGED << configVars, queueVars, fiberVars, crash, gq, workerVars, monitorVars,
                    sfib >>

\* coroutine_queue_append links the new node after the last it read
SpawnAppend(s) ==
    /\ crash = "none"
    /\ s \in Spawners
    /\ spc[s] = "append"
    /\ gq' = coroutine_queue_append(slast[s], sfib[s])
    /\ slast' = [slast EXCEPT ![s] = << >>]
    /\ spc' = [spc EXCEPT ![s] = "store"]
    /\ UNCHANGED << configVars, queueVars, fiberVars, crash, glock, workerVars,
                    monitorVars, sfib >>

\* __c11_atomic_store(&coroutine->state, cs_runnable)
SpawnStore(s) ==
    /\ crash = "none"
    /\ s \in Spawners
    /\ spc[s] = "store"
    /\ cstate' = [cstate EXCEPT ![sfib[s]] = cs_runnable]
    /\ spc' = [spc EXCEPT ![s] = "unlock"]
    /\ UNCHANGED << configVars, queueVars, nfib, nret, regs, freed, uaf, crash, globalVars,
                    workerVars, monitorVars, sfib, slast >>

\* pthread_mutex_unlock; sigurg_unblock; return coroutine
SpawnUnlock(s) ==
    /\ crash = "none"
    /\ s \in Spawners
    /\ spc[s] = "unlock"
    /\ glock' = 0
    /\ spc' = [spc EXCEPT ![s] = "idle"]
    /\ sfib' = [sfib EXCEPT ![s] = NULL]
    /\ UNCHANGED << configVars, queueVars, fiberVars, crash, gq, workerVars, monitorVars,
                    slast >>

(* --------------------- monitor: loom_monitor_process ------------------- *)

\* the end of one iteration of the for loop over the workers
MonitorAdvance ==
    IF mi + 1 < nw
    THEN /\ mi' = mi + 1
         /\ mpc' = "recycle"
    ELSE /\ mi' = 0
         /\ mpc' = "sleep"

\* usleep(sleep_interval) returns; the for loop starts
MonitorWake ==
    /\ crash = "none"
    /\ mpc = "sleep"
    /\ mpc' = "recycle"
    /\ mi' = 0
    /\ UNCHANGED << configVars, queueVars, fiberVars, crash, globalVars, workerVars, mj, last,
                    spawnVars >>

\* recycle_global_queue: pthread_mutex_lock(&loom_runtime->queue_lock)
MonitorLockGlobal ==
    /\ crash = "none"
    /\ mpc = "recycle"
    /\ GlobalLockFree
    /\ glock' = MonitorId
    /\ mj' = 0
    /\ mpc' = "drain"
    /\ UNCHANGED << configVars, queueVars, fiberVars, crash, gq, workerVars, mi, last, spawnVars >>

\* a faulty enqueue_to_next_thread that does not advance the counter
NextThreadSame == last

\* enqueue_to_next_thread: the worker the next Runnable fiber goes to
NextThread == (last + 1) % nw

\* recycle_global_queue: one evaluation of the loop condition and, when it
\* holds, of the switch on the head's state up to the first queue operation
MonitorDrain ==
    /\ crash = "none"
    /\ mpc = "drain"
    /\ IF mj < Len(gq)
       THEN LET c == Head(gq)
                st == cstate[c]
            IN  CASE st = cs_runnable ->
                       \* thread_enqueue_local on the next worker
                       /\ llock[NextThread] = "free"
                       /\ last' = NextThread
                       /\ lq' = [lq EXCEPT ![NextThread] =
                                     coroutine_queue_append(@, c)]
                       /\ mpc' = "popleft"
                       /\ UNCHANGED << freed, crash, gq, glock, mj >>
                  [] st = cs_done ->
                       /\ gq' = coroutine_queue_popleft(gq)
                       /\ freed' = freed \cup {c}
                       /\ mj' = mj + 1
                       /\ UNCHANGED << crash, glock, lq, mpc, last >>
                  [] st = cs_created ->
                       /\ crash' = "unreachable state"
                       /\ UNCHANGED << freed, gq, glock, lq, mpc, mj, last >>
                  [] OTHER ->
                       /\ gq' = coroutine_queue_reenqueue(gq)
                       /\ mj' = mj + 1
                       /\ UNCHANGED << freed, crash, glock, lq, mpc, last >>
       ELSE \* pthread_mutex_unlock; the loop counter dies with the call
            /\ glock' = 0
            /\ mpc' = "size"
            /\ mj' = 0
            /\ UNCHANGED << freed, crash, gq, lq, last >>
    /\ UNCHANGED << configVars, queueVars, nfib, nret, cstate, regs, uaf, llock, current, tstate, sem,
                    blocked, pending, expired, wpc, pi, pcor, mach, mi,
                    spawnVars >>

\* recycle_global_queue, case cs_runnable: coroutine_queue_popleft after the
\* fiber was appended to the worker's queue
MonitorPopleft ==
    /\ crash = "none"
    /\ mpc = "popleft"
    /\ gq' = coroutine_queue_popleft(gq)
    /\ mj' = mj + 1
    /\ mpc' = "drain"
    /\ UNCHANGED << configVars, queueVars, fiberVars, crash, glock, workerVars, mi, last,
                    spawnVars >>

\* thread_local_queue_size(worker_thread) == 0 -> continue
MonitorSize ==
    /\ crash = "none"
    /\ mpc = "size"
    /\ llock[mi] = "free"
    /\ IF Len(lq[mi]) = 0
       THEN MonitorAdvance
       ELSE /\ mpc' = "state"
            /\ mi' = mi
    /\ UNCHANGED << configVars, queueVars, fiberVars, crash, globalVars, workerVars, mj, last,
                    spawnVars >>

\* the switch on the worker's state
MonitorState ==
    /\ crash = "none"
    /\ mpc = "state"
    /\ IF tstate[mi] = ts_idle
       THEN \* dispatch_semaphore_signal
            /\ sem[mi] < MaxSem
            /\ sem' = [sem EXCEPT ![mi] = @ + 1]
            /\ MonitorAdvance
       ELSE IF tstate[mi] = ts_running /\ expired[mi]
       THEN /\ mpc' = "kill"
            /\ mi' = mi
            /\ sem' = sem
       ELSE /\ MonitorAdvance
            /\ sem' = sem
    /\ UNCHANGED << configVars, queueVars, fiberVars, crash, globalVars, lq, llock, current,
                    tstate, blocked, pending, expired, wpc, pi, pcor, mach,
                    mj, last, spawnVars >>

\* a faulty monitor that goes on to the next worker without pthread_kill
MonitorKillDropped ==
    /\ crash = "none"
    /\ mpc = "kill"
    /\ MonitorAdvance
    /\ UNCHANGED << configVars, queueVars, fiberVars, crash, globalVars, workerVars, mj,
                    last, spawnVars >>

\* pthread_kill(worker_thread->pthread, SIGURG)
MonitorKill ==
    /\ crash = "none"
    /\ mpc = "kill"
    /\ pending' = [pending EXCEPT ![mi] = TRUE]
    /\ MonitorAdvance
    /\ UNCHANGED << configVars, queueVars, fiberVars, crash, globalVars, lq, llock, current,
                    tstate, sem, blocked, expired, wpc, pi, pcor, mach, mj,
                    last, spawnVars >>

(* ------------------------------ workers ------------------------------- *)

HandlerLabels == {"h_copy", "h_requeue"}

\* a worker thread that can take its next step: the process lives and no
\* deliverable SIGURG is waiting (a pending unblocked signal is taken first)
Ready(w) ==
    /\ crash = "none"
    /\ w \in Workers
    /\ ~(pending[w] /\ ~blocked[w])

\* loom_working_thread_main: sigurg_block; tls_self = self; state = ts_created
WorkerStart(w) ==
    /\ Ready(w)
    /\ wpc[w] = "main0"
    /\ blocked' = [blocked EXCEPT ![w] = TRUE]
    /\ tstate' = [tstate EXCEPT ![w] = ts_created]
    /\ wpc' = [wpc EXCEPT ![w] = "main1"]
    /\ UNCHANGED << configVars, queueVars, fiberVars, crash, globalVars, lq, llock, current, sem,
                    pending, expired, pi, pcor, mach, monitorVars, spawnVars >>

\* loom_working_thread_main, loop head: sigurg_block; state = ts_idle
WorkerIdle(w) ==
    /\ Ready(w)
    /\ wpc[w] = "main1"
    /\ blocked' = [blocked EXCEPT ![w] = TRUE]
    /\ tstate' = [tstate EXCEPT ![w] = ts_idle]
    /\ wpc' = [wpc EXCEPT ![w] = "wait"]
    /\ UNCHANGED << configVars, queueVars, fiberVars, crash, globalVars, lq, llock, current, sem,
                    pending, expired, pi, pcor, mach, monitorVars, spawnVars >>

\* dispatch_semaphore_wait returns; thread_local_queue_size; restore the main
\* coroutine's context, which enters thread_schedule
WorkerWake(w) ==
    /\ Ready(w)
    /\ wpc[w] = "wait"
    /\ sem[w] > 0
    /\ llock[w] = "free"
    /\ sem' = [sem EXCEPT ![w] = @ - 1]
    /\ wpc' = [wpc EXCEPT ![w] = "ts0"]
    /\ UNCHANGED << configVars, queueVars, fiberVars, crash, globalVars, lq, llock, current,
                    tstate, blocked, pending, expired, pi, pcor, mach,
                    monitorVars, spawnVars >>

\* thread_schedule: sigurg_block; state = ts_scheduling; thread_local_queue_size
ScheduleEnter(w) ==
    /\ Ready(w)
    /\ wpc[w] = "ts0"
    /\ llock[w] = "free"
    /\ blocked' = [blocked EXCEPT ![w] = TRUE]
    /\ tstate' = [tstate EXCEPT ![w] = ts_scheduling]
    /\ expired' = [expired EXCEPT ![w] = FALSE]
    /\ wpc' = [wpc EXCEPT ![w] = "ts_lock"]
    /\ UNCHANGED << configVars, queueVars, fiberVars, crash, globalVars, lq, llock,
                    current, sem, pending, pi, pcor, mach, monitorVars,
                    spawnVars >>

\* thread_schedule: pthread_mutex_lock(&self->queue_lock); a current fiber
\* still cs_running is made cs_runnable and rotated to the back
ScheduleLock(w) ==
    /\ Ready(w)
    /\ wpc[w] = "ts_lock"
    /\ llock[w] = "free"
    /\ llock' = [llock EXCEPT ![w] = "worker"]
    /\ IF current[w] # NULL /\ cstate[current[w]] = cs_running
       THEN /\ cstate' = [cstate EXCEPT ![current[w]] = cs_runnable]
            /\ lq' = [lq EXCEPT ![w] = coroutine_queue_reenqueue(@)]
       ELSE UNCHANGED << cstate, lq >>
    /\ pi' = [pi EXCEPT ![w] = 0]
    /\ wpc' = [wpc EXCEPT ![w] = "pick"]
    /\ UNCHANGED << configVars, queueVars, nfib, nret, regs, freed, uaf, crash, globalVars, current,
                    tstate, sem, blocked, pending, expired, pcor, mach,
                    monitorVars, spawnVars >>

\* scheduler_get_first_runnable: one evaluation of the loop condition and,
\* when it holds, of the body up to coroutine_queue_popleft
PickInspect(w) ==
    /\ Ready(w)
    /\ wpc[w] = "pick"
    /\ IF pi[w] < Len(lq[w])
       THEN LET c == Head(lq[w])
            IN  IF cstate[c] = cs_runnable
                THEN \* the head stays in the queue
                     /\ current' = [current EXCEPT ![w] = c]
                     /\ wpc' = [wpc EXCEPT ![w] = "ts_unlock"]
                     /\ pi' = [pi EXCEPT ![w] = 0]
                     /\ UNCHANGED << lq, pcor, blocked >>
                ELSE IF cstate[c] = cs_done
                THEN \* coroutine_queue_popleft; its coroutine_queue_node_free
                     \* ends in sigblock_free's sigurg_unblock
                     /\ lq' = [lq EXCEPT ![w] = coroutine_queue_popleft(@)]
                     /\ pcor' = [pcor EXCEPT ![w] = c]
                     /\ blocked' = [blocked EXCEPT ![w] = FALSE]
                     /\ wpc' = [wpc EXCEPT ![w] = "pick_free"]
                     /\ UNCHANGED << current, pi >>
                ELSE /\ lq' = [lq EXCEPT ![w] = coroutine_queue_reenqueue(@)]
                     /\ pi' = [pi EXCEPT ![w] = @ + 1]
                     /\ UNCHANGED << current, pcor, blocked, wpc >>
       ELSE /\ current' = [current EXCEPT ![w] = NULL]
            /\ wpc' = [wpc EXCEPT ![w] = "ts_unlock"]
            /\ pi' = [pi EXCEPT ![w] = 0]
            /\ UNCHANGED << lq, pcor, blocked >>
    /\ UNCHANGED << configVars, queueVars, fiberVars, crash, globalVars, llock, tstate,
                    sem, pending, expired, mach, monitorVars, spawnVars >>

\* scheduler_get_first_runnable, cs_done: coroutine_free(coroutine)
PickFree(w) ==
    /\ Ready(w)
    /\ wpc[w] = "pick_free"
    /\ freed' = freed \cup {pcor[w]}
    /\ uaf' = (uaf \/ pcor[w] \in freed)
    /\ blocked' = [blocked EXCEPT ![w] = FALSE]
    /\ wpc' = [wpc EXCEPT ![w] = "pick_clr"]
    /\ UNCHANGED << configVars, queueVars, nfib, nret, cstate, regs, crash, globalVars, lq, llock,
                    current, tstate, sem, pending, expired, pi, pcor, mach,
                    monitorVars, spawnVars >>

\* scheduler_get_first_runnable, cs_done: coroutine = 0; current = 0; then
\* the coroutine_queue_reenqueue that ends every iteration
PickClear(w) ==
    /\ Ready(w)
    /\ wpc[w] = "pick_clr"
    /\ current' = [current EXCEPT ![w] = NULL]
    /\ pcor' = [pcor EXCEPT ![w] = NULL]
    /\ lq' = [lq EXCEPT ![w] = coroutine_queue_reenqueue(@)]
    /\ pi' = [pi EXCEPT ![w] = @ + 1]
    /\ wpc' = [wpc EXCEPT ![w] = "pick"]
    /\ UNCHANGED << configVars, queueVars, fiberVars, crash, globalVars, llock, tstate, sem,
                    blocked, pending, expired, mach, monitorVars, spawnVars >>

\* a faulty thread_schedule that leaves its queue lock locked
ScheduleUnlockDropped(w) ==
    /\ Ready(w)
    /\ wpc[w] = "ts_unlock"
    /\ wpc' = [wpc EXCEPT ![w] =
                   IF current[w] = NULL THEN "idle1" ELSE "dispatch"]
    /\ UNCHANGED << configVars, queueVars, fiberVars, crash, globalVars, lq,
                    llock, current, tstate, sem, blocked, pending, expired,
                    pi, pcor, mach, monitorVars, spawnVars >>

\* a faulty thread_schedule that goes idle whatever the pick returned
ScheduleUnlockAlwaysIdle(w) ==
    /\ Ready(w)
    /\ wpc[w] = "ts_unlock"
    /\ llock' = [llock EXCEPT ![w] = "free"]
    /\ wpc' = [wpc EXCEPT ![w] = "idle1"]
    /\ UNCHANGED << configVars, queueVars, fiberVars, crash, globalVars, lq,
                    current, tstate, sem, blocked, pending, expired, pi, pcor,
                    mach, monitorVars, spawnVars >>

\* thread_schedule: current = coroutine; pthread_mutex_unlock; coroutine == 0?
ScheduleUnlock(w) ==
    /\ Ready(w)
    /\ wpc[w] = "ts_unlock"
    /\ llock' = [llock EXCEPT ![w] = "free"]
    /\ wpc' = [wpc EXCEPT ![w] =
                   IF current[w] = NULL THEN "idle1" ELSE "dispatch"]
    /\ UNCHANGED << configVars, queueVars, fiberVars, crash, globalVars, lq, current, tstate,
                    sem, blocked, pending, expired, pi, pcor, mach,
                    monitorVars, spawnVars >>

\* thread_schedule, no fiber: state = ts_idle; call loom_working_thread_main
ScheduleIdle(w) ==
    /\ Ready(w)
    /\ wpc[w] = "idle1"
    /\ tstate' = [tstate EXCEPT ![w] = ts_idle]
    /\ wpc' = [wpc EXCEPT ![w] = "main0"]
    /\ UNCHANGED << configVars, queueVars, fiberVars, crash, globalVars, lq, llock, current, sem,
                    blocked, pending, expired, pi, pcor, mach, monitorVars,
                    spawnVars >>

\* thread_schedule: time_quant_start = now_ns(); coroutine->state =
\* cs_running; self->state = ts_running
Dispatch(w) ==
    /\ Ready(w)
    /\ wpc[w] = "dispatch"
    /\ expired' = [expired EXCEPT ![w] = FALSE]
    /\ cstate' = [cstate EXCEPT ![current[w]] = cs_running]
    /\ uaf' = (uaf \/ current[w] \in freed)
    /\ tstate' = [tstate EXCEPT ![w] = ts_running]
    /\ wpc' = [wpc EXCEPT ![w] = "unblock"]
    /\ UNCHANGED << configVars, queueVars, nfib, nret, regs, freed, crash, globalVars, lq, llock,
                    current, sem, blocked, pending, pi, pcor, mach,
                    monitorVars, spawnVars >>

\* thread_schedule: sigurg_unblock
Unblock(w) ==
    /\ Ready(w)
    /\ wpc[w] = "unblock"
    /\ blocked' = [blocked EXCEPT ![w] = FALSE]
    /\ wpc' = [wpc EXCEPT ![w] = "restore"]
    /\ UNCHANGED << configVars, queueVars, fiberVars, crash, globalVars, lq, llock, current,
                    tstate, sem, pending, expired, pi, pcor, mach,
                    monitorVars, spawnVars >>

\* loom_restore_context(&coroutine->context->registers): load the registers
\* and jump to the saved pc
Restore(w) ==
    /\ Ready(w)
    /\ wpc[w] = "restore"
    /\ LET R == regs[current[w]]
           to == LabelOf(R.pc)
       IN  /\ wpc' = [wpc EXCEPT ![w] = to]
           /\ mach' = [mach EXCEPT ![w] =
                           IF to \in {"run", "epi"} THEN R ELSE ZeroRegs]
    /\ UNCHANGED << configVars, queueVars, fiberVars, crash, globalVars, lq, llock, current,
                    tstate, sem, blocked, pending, expired, pi, pcor,
                    monitorVars, spawnVars >>

\* the fiber's entry function runs one step
FiberStep(w) ==
    /\ Ready(w)
    /\ wpc[w] = "run"
    /\ mach' = [mach EXCEPT ![w] = UserStep(@)]
    /\ UNCHANGED << configVars, queueVars, fiberVars, crash, globalVars, lq, llock, current,
                    tstate, sem, blocked, pending, expired, wpc, pi, pcor,
                    monitorVars, spawnVars >>

\* the entry function returns into the epilogue, which sets the fiber cs_done
FiberReturn(w) ==
    /\ Ready(w)
    /\ wpc[w] = "run"
    /\ nret < rets
    /\ nret' = nret + 1
    /\ cstate' = [cstate EXCEPT ![current[w]] = cs_done]
    /\ mach' = [mach EXCEPT ![w] = EpilogueRegs(@)]
    /\ wpc' = [wpc EXCEPT ![w] = "epi"]
    /\ UNCHANGED << configVars, queueVars, nfib, regs, freed, uaf, crash, globalVars, lq,
                    llock, current, tstate, sem, blocked, pending, expired,
                    pi, pcor, monitorVars, spawnVars >>

\* the epilogue restores the main coroutine's context: thread_schedule starts
EpilogueRestore(w) ==
    /\ Ready(w)
    /\ wpc[w] = "epi"
    /\ mach' = [mach EXCEPT ![w] = ZeroRegs]
    /\ wpc' = [wpc EXCEPT ![w] = "ts0"]
    /\ UNCHANGED << configVars, queueVars, fiberVars, crash, globalVars, lq, llock, current,
                    tstate, sem, blocked, pending, expired, pi, pcor,
                    monitorVars, spawnVars >>

\* the registers of the worker thread at the instant a signal interrupts it
Interrupted(w) ==
    IF wpc[w] \in {"run", "epi"} THEN mach[w] ELSE RuntimeRegs(w, wpc[w])

\* SIGURG is delivered: sigurg_handler starts on the alternate stack with the
\* interrupted registers in its ucontext; state = ts_scheduling; sigurg_block
Deliver(w) ==
    /\ crash = "none"
    /\ w \in Workers
    /\ pending[w]
    /\ ~blocked[w]
    /\ wpc[w] \notin HandlerLabels
    /\ pending' = [pending EXCEPT ![w] = FALSE]
    /\ blocked' = [blocked EXCEPT ![w] = TRUE]
    /\ tstate' = [tstate EXCEPT ![w] = ts_scheduling]
    /\ expired' = [expired EXCEPT ![w] = FALSE]
    /\ mach' = [mach EXCEPT ![w] = Interrupted(w)]
    /\ wpc' = [wpc EXCEPT ![w] = "h_copy"]
    /\ UNCHANGED << configVars, queueVars, fiberVars, crash, globalVars, lq, llock,
                    current, sem, pi, pcor, monitorVars, spawnVars >>

\* sigurg_handler: copy_current_ucontext into the current fiber's context;
\* coroutine->state = cs_runnable
HandlerCopy(w) ==
    /\ Ready(w)
    /\ wpc[w] = "h_copy"
    /\ IF current[w] = NULL
       THEN /\ crash' = "null current"
            /\ UNCHANGED << regs, cstate, uaf, wpc >>
       ELSE /\ regs' = [regs EXCEPT ![current[w]] =
                            copy_current_ucontext(ThreadState64(mach[w]))]
            /\ cstate' = [cstate EXCEPT ![current[w]] = cs_runnable]
            /\ uaf' = (uaf \/ current[w] \in freed)
            /\ wpc' = [wpc EXCEPT ![w] = "h_requeue"]
            /\ crash' = crash
    /\ UNCHANGED << configVars, queueVars, nfib, nret, freed, globalVars, lq, llock, current, tstate,
                    sem, blocked, pending, expired, pi, pcor, mach,
                    monitorVars, spawnVars >>

\* a faulty sigurg_handler that leaves the preempted fiber at the head
HandlerRequeueKept(w) ==
    /\ Ready(w)
    /\ wpc[w] = "h_requeue"
    /\ llock[w] = "free"
    /\ mach' = [mach EXCEPT ![w] = ZeroRegs]
    /\ wpc' = [wpc EXCEPT ![w] = "ts0"]
    /\ UNCHANGED << configVars, queueVars, fiberVars, crash, globalVars, lq,
                    llock, current, tstate, sem, blocked, pending, expired,
                    pi, pcor, monitorVars, spawnVars >>

\* sigurg_handler: thread_reenqueue_local; restore the main coroutine
HandlerRequeue(w) ==
    /\ Ready(w)
    /\ wpc[w] = "h_requeue"
    /\ llock[w] = "free"
    /\ lq' = [lq EXCEPT ![w] = coroutine_queue_reenqueue(@)]
    /\ mach' = [mach EXCEPT ![w] = ZeroRegs]
    /\ wpc' = [wpc EXCEPT ![w] = "ts0"]
    /\ UNCHANGED << configVars, queueVars, fiberVars, crash, globalVars, llock, current, tstate,
                    sem, blocked, pending, expired, pi, pcor, monitorVars,
                    spawnVars >>

\* time passes: the running fiber's slice is now longer than the budget
SliceExpire(w) ==
    /\ crash = "none"
    /\ w \in Workers
    /\ tstate[w] = ts_running
    /\ ~expired[w]
    /\ expired' = [expired EXCEPT ![w] = TRUE]
    /\ UNCHANGED << configVars, queueVars, fiberVars, crash, globalVars, lq, llock, current,
                    tstate, sem, blocked, pending, wpc, pi, pcor, mach,
                    monitorVars, spawnVars >>

(* --------------------------- specification ---------------------------- *)

SpawnNext(s) ==
    \/ SpawnCreate(s)
    \/ SpawnLock(s)
    \/ SpawnAppend(s)
    \/ SpawnStore(s)
    \/ SpawnUnlock(s)

MonitorNext ==
    \/ MonitorWake
    \/ MonitorLockGlobal
    \/ MonitorDrain
    \/ MonitorPopleft
    \/ MonitorSize
    \/ MonitorState
    \/ MonitorKill

SchedulerNext(w) ==
    \/ WorkerStart(w)
    \/ WorkerIdle(w)
    \/ WorkerWake(w)
    \/ ScheduleEnter(w)
    \/ ScheduleLock(w)
    \/ PickInspect(w)
    \/ PickFree(w)
    \/ PickClear(w)
    \/ ScheduleUnlock(w)
    \/ ScheduleIdle(w)
    \/ Dispatch(w)
    \/ Unblock(w)
    \/ Restore(w)
    \/ EpilogueRestore(w)
    \/ Deliver(w)
    \/ HandlerCopy(w)
    \/ HandlerRequeue(w)

WorkerNext(w) ==
    \/ SchedulerNext(w)
    \/ FiberStep(w)
    \/ FiberReturn(w)

Next ==
    \/ \E s \in SpawnerSlots : SpawnNext(s)
    \/ MonitorNext
    \/ \E w \in WorkerSlots : WorkerNext(w)
    \/ \E w \in WorkerSlots : SliceExpire(w)

Spec == Init /\ [][Next]_vars

\* spawning threads alone: no monitor sweep, the workers never started
InitSpawn == Start(WORKING_THREADS_COUNT, NSpawners, 0, MaxSpawns)

NextSpawn == \E s \in SpawnerSlots : SpawnNext(s)

SpecSpawn == InitSpawn /\ [][NextSpawn]_vars

\* the build's own pool under fair scheduling of its threads: the monitor
\* thread and the worker threads keep running, a thread inside
\* runtime_schedule finishes the call, and time passes.  The fairness is
\* strong because a thread that waits for a mutex gets it: the holders keep
\* it for a few instructions and the monitor sleeps between its sweeps.
\* Nothing makes the program spawn again or an entry function return.
InitFair == Start(WORKING_THREADS_COUNT, 1, MaxReturns, MaxFibers)

\* the workers of the build's own pool
PoolWorkers == 0 .. (WORKING_THREADS_COUNT - 1)

SpawnFinish(s) ==
    \/ SpawnLock(s)
    \/ SpawnAppend(s)
    \/ SpawnStore(s)
    \/ SpawnUnlock(s)

Fairness ==
    /\ SF_vars(MonitorNext)
    /\ SF_vars(SpawnFinish(1))
    /\ \A w \in PoolWorkers : SF_vars(SchedulerNext(w))
    /\ \A w \in PoolWorkers : WF_vars(SliceExpire(w))

FairSpec == InitFair /\ [][Next]_vars /\ Fairness

(* ------------------- the monitor's dispatch alone ---------------------- *)

\* the largest pool, one spawning thread and the monitor, while the operating
\* system has not yet run the worker threads: every fiber the monitor moves
\* stays in the local queue it was appended to
InitDispatch == Start(MaxWorkers, 1, 0, DispatchFibers)

NextDispatch ==
    \/ \E s \in SpawnerSlots : SpawnNext(s)
    \/ MonitorWake
    \/ MonitorLockGlobal
    \/ MonitorDrain
    \/ MonitorPopleft
    \/ MonitorSize
    \/ MonitorState

SpecDispatch == InitDispatch /\ [][NextDispatch]_vars

\* fiber f is in the local queue of some worker
Dispatched(f) == \E w \in Workers : InQueue(lq[w], f)

(* ----------------------- allocation failure ---------------------------- *)

\* runtime_schedule when def_malloc returns 0 for the coroutine_t:
\* sigblock_malloc returns 0 and coroutine_create stores the new context
\* through the null pointer, which ends the process
SpawnAllocFail(s) ==
    /\ crash = "none"
    /\ s \in Spawners
    /\ spc[s] = "idle"
    /\ nfib < calls
    /\ crash' = "null coroutine"
    /\ UNCHANGED << configVars, queueVars, fiberVars, globalVars, workerVars,
                    monitorVars, spawnVars >>

\* the build's own pool in a process whose allocator can run out of memory
InitAlloc == Start(WORKING_THREADS_COUNT, 1, MaxReturns, MaxFibers)

NextAlloc ==
    \/ Next
    \/ \E s \in SpawnerSlots : SpawnAllocFail(s)

SpecAlloc == InitAlloc /\ [][NextAlloc]_vars

(* ------------------- a fiber queue on its own -------------------------- *)

\* what one operation on hq did: the operation, the fiber it was given or
\* returned, and the fibers of the queue before it
Did(op, c) == [op |-> op, c |-> c, before |-> Contents(hq)]

\* coroutine_queue_append(&queue, c); the allocator returns any free block
QueueAppend ==
    /\ crash = "none"
    /\ Len(hlog) < MaxOps
    /\ \E c \in 1 .. QueueFibers : \E n \in Nodes \ hq.live :
           /\ hq' = list_queue_append(hq, n, c)
           /\ hlog' = Append(hlog, Did("append", c))
    /\ UNCHANGED << configVars, fiberVars, crash, globalVars, workerVars,
                    monitorVars, spawnVars >>

\* coroutine_queue_popleft(&queue): m_assert(queue->size > 0) ends the
\* process on an empty queue
QueuePopleft ==
    /\ crash = "none"
    /\ Len(hlog) < MaxOps
    /\ IF hq.size > 0
       THEN /\ hq' = list_queue_popleft(hq)
            /\ hlog' = Append(hlog, Did("popleft",
                                        list_queue_popleft_result(hq)))
            /\ crash' = crash
       ELSE /\ crash' = "can't popleft from empty queue"
            /\ UNCHANGED << hq, hlog >>
    /\ UNCHANGED << configVars, fiberVars, globalVars, workerVars,
                    monitorVars, spawnVars >>

\* coroutine_queue_reenqueue(&queue)
QueueReenqueue ==
    /\ crash = "none"
    /\ Len(hlog) < MaxOps
    /\ hq' = list_queue_reenqueue(hq)
    /\ hlog' = Append(hlog, Did("reenqueue", NULL))
    /\ UNCHANGED << configVars, fiberVars, crash, globalVars, workerVars,
                    monitorVars, spawnVars >>

InitQueue == Start(WORKING_THREADS_COUNT, 0, 0, 0)

NextQueue ==
    \/ QueueAppend
    \/ QueuePopleft
    \/ QueueReenqueue

SpecQueue == InitQueue /\ [][NextQueue]_vars

\* the fibers appended and the fibers returned by popleft, in order
RECURSIVE Given(_, _)
Given(log, op) ==
    IF log = << >> THEN << >>
    ELSE (IF Head(log).op = op THEN << Head(log).c >> ELSE << >>)
             \o Given(Tail(log), op)

(* ----------------- scheduler_get_first_runnable on its own ------------- *)

\* a worker that has entered thread_schedule and taken its queue lock, about
\* to call scheduler_get_first_runnable on a local queue of fibers 1 .. n in
\* this order, each of them cs_runnable or cs_done (the states of the fibers
\* a local queue holds when its worker scans it)
InitPick ==
    \E n \in 0 .. PickLen :
        \E st \in [1 .. n -> {cs_runnable, cs_done}] :
            /\ nw = WORKING_THREADS_COUNT
            /\ ns = 0
            /\ rets = 0
            /\ calls = 0
            /\ nfib = n
            /\ nret = 0
            /\ cstate = st
            /\ regs = [f \in 1 .. n |-> EntryRegs(f, f)]
            /\ freed = {}
            /\ uaf = FALSE
            /\ crash = "none"
            /\ gq = << >>
            /\ glock = 0
            /\ lq = [w \in WorkerSlots |->
                         IF w = 0 THEN [k \in 1 .. n |-> k] ELSE << >>]
            /\ llock = [w \in WorkerSlots |->
                            IF w = 0 THEN "worker" ELSE "free"]
            /\ current = [w \in WorkerSlots |-> NULL]
            /\ tstate = [w \in WorkerSlots |->
                             IF w = 0 THEN ts_scheduling ELSE ts_created]
            /\ sem = [w \in WorkerSlots |-> 0]
            /\ blocked = [w \in WorkerSlots |-> w = 0]
            /\ pending = [w \in WorkerSlots |-> FALSE]
            /\ expired = [w \in WorkerSlots |-> FALSE]
            /\ wpc = [w \in WorkerSlots |-> IF w = 0 THEN "pick" ELSE "off"]
            /\ pi = [w \in WorkerSlots |-> 0]
            /\ pcor = [w \in WorkerSlots |-> NULL]
            /\ mach = [w \in WorkerSlots |-> ZeroRegs]
            /\ mpc = "sleep"
            /\ mi = 0
            /\ mj = 0
            /\ last = nw - 1
            /\ spc = [s \in SpawnerSlots |-> "idle"]
            /\ sfib = [s \in SpawnerSlots |-> NULL]
            /\ slast = [s \in SpawnerSlots |-> << >>]
            /\ hq = coroutine_queue_init
            /\ hlog = << >>

NextPick ==
    \/ PickInspect(0)
    \/ PickFree(0)
    \/ PickClear(0)

SpecPick == InitPick /\ [][NextPick]_vars

\* the queue scheduler_get_first_runnable was called on, and the fibers of
\* it that were cs_runnable, in queue order
ScannedQueue == [k \in 1 .. nfib |-> k]

IsRunnable(f) == cstate[f] = cs_runnable

RunnableScanned == SelectSeq(ScannedQueue, IsRunnable)

\* scheduler_get_first_runnable has returned; thread_schedule holds its result
PickReturned(w) == wpc[w] = "ts_unlock"

(* ------------------------ state functions ----------------------------- *)

\* the number of queues (the global queue, the workers' local queues) that
\* hold fiber f
NQueues(f) ==
    (IF InQueue(gq, f) THEN 1 ELSE 0)
        + Cardinality({w \in Workers : InQueue(lq[w], f)})

\* the workers whose scheduler->current is fiber f
Owners(f) == {w \in Workers : current[w] = f}

(* ------------------------------ claims -------------------------------- *)

\* C1: every Runnable fiber is in exactly one queue among the global queue
\* and the local queues, and no fiber of any state is in two queues at once,
\* at every step of spawn and of the monitor's move.
C1_RunnableInExactlyOneQueue ==
    \A f \in Fibers :
        /\ cstate[f] = cs_runnable => NQueues(f) = 1
        /\ NQueues(f) <= 1

\* C2: a Running fiber is in no queue, because the scheduler's pick removes
\* the Runnable fiber it selects from the local queue before the fiber runs.
C2_RunningInNoQueue ==
    \A f \in Fibers : cstate[f] = cs_running => NQueues(f) = 0

\* C2 as the code has it: scheduler_get_first_runnable leaves the fiber it
\* selects in the local queue, so a Running fiber is the head of the local
\* queue of the worker whose current it is.
C2_RunningHeadsLocalQueue ==
    \A f \in Fibers :
        cstate[f] = cs_running =>
            \E w \in Workers : /\ current[w] = f
                               /\ lq[w] # << >>
                               /\ Head(lq[w]) = f

\* a fiber runs on its worker while it heads that worker's local queue and a
\* second fiber waits behind it
C2_RunningFiberHeadsQueueOfTwo ==
    \E w \in Workers :
        /\ wpc[w] = "run"
        /\ current[w] # NULL
        /\ cstate[current[w]] = cs_running
        /\ Len(lq[w]) = 2
        /\ Head(lq[w]) = current[w]

\* C3: a Running fiber is the current fiber of exactly one worker, so no two
\* workers run the same fiber.
C3_RunningIsCurrentOfOneWorker ==
    \A f \in Fibers : cstate[f] = cs_running => Cardinality(Owners(f)) = 1

\* two workers run one fiber each at the same time
C3_TwoWorkersRunTwoFibers ==
    /\ nw = 2
    /\ \A w \in Workers : /\ wpc[w] = "run"
                           /\ current[w] # NULL
                           /\ cstate[current[w]] = cs_running
    /\ current[0] # current[1]

\* C4: a fiber leaves Created once, to Runnable, never returns to Created, and
\* a Done fiber's state never changes again.
C4_DoneIsTerminal ==
    [][\A f \in Fibers :
           /\ cstate[f] = cs_done => cstate'[f] = cs_done
           /\ cstate[f] # cs_created => cstate'[f] # cs_created
           /\ (cstate[f] = cs_created /\ cstate'[f] # cs_created)
                  => cstate'[f] = cs_runnable]_vars

\* sigurg_handler has started on worker w, which was interrupted while it
\* executed the code of its current fiber f
PreemptionOf(w, f) ==
    /\ current[w] = f
    /\ wpc[w] = "h_copy"
    /\ mach[w].pc >= EpiPc

\* C5: a fiber's saved context is written only by the preemption of that
\* fiber, with the registers the fiber was interrupted with, all 31 general
\* registers, sp and pc; the saved context of a suspended fiber is not written
\* between its preemption and its next resumption.
C5_SavedContextWrittenOnlyByPreemption ==
    [][\A f \in Fibers :
           regs'[f] # regs[f] =>
               \E w \in Workers : /\ PreemptionOf(w, f)
                                  /\ regs'[f] = mach[w]]_vars

\* C6: on a single worker with MaxFibers fibers that never finish, under
\* fair scheduling, every fiber is Running infinitely often.
C6_EveryFiberRunsInfinitelyOften ==
    \A f \in 1 .. MaxFibers :
        []<>(nfib < MaxFibers \/ nret > 0 \/ cstate[f] = cs_running)

\* the preempt-rotate-pick cycle has gone round: every fiber was interrupted
\* in its own code at least once, none has finished, and the first runs again
C6_FirstFiberRunsAgain ==
    /\ nfib = MaxFibers
    /\ nret = 0
    /\ \A f \in Fibers : regs[f].pc > FuncPc
    /\ wpc[0] = "run"
    /\ current[0] = 1
    /\ cstate[1] = cs_running

\* C7: a worker that stays Running on one fiber past the slice budget is sent
\* the preemption signal and re-enters its scheduler (state Scheduling), also
\* when that fiber is the only fiber of the worker.
C7_OverBudgetWorkerReschedules ==
    \A w \in PoolWorkers :
        (tstate[w] = ts_running /\ expired[w]) ~> (tstate[w] = ts_scheduling)

\* the handler has started on a worker whose only fiber was interrupted in
\* its own code
C7_SoleFiberPreempted ==
    /\ nfib = 1
    /\ lq[0] = << 1 >>
    /\ wpc[0] = "h_copy"
    /\ tstate[0] = ts_scheduling
    /\ mach[0].pc > FuncPc

\* C8: under fairness every fiber admitted by spawn is moved from the global
\* queue to a worker's local queue and eventually reaches Running.
C8_AdmittedFiberRuns ==
    \A f \in 1 .. MaxFibers :
        (f \in Fibers /\ cstate[f] = cs_runnable /\ InQueue(gq, f))
            ~> (f \in Fibers /\ cstate[f] = cs_running)

\* C9: under fairness a fiber whose state became Done is eventually removed
\* from every queue and freed.
C9_DoneFiberIsFreed ==
    \A f \in 1 .. MaxFibers :
        (f \in Fibers /\ cstate[f] = cs_done)
            ~> (NQueues(f) = 0 /\ f \in freed)

\* C10: after the concurrent spawn calls, with no monitor sweep, the global
\* queue holds every spawned fiber exactly once and all of them are Runnable.
C10_ConcurrentSpawnsAllQueued ==
    (\A s \in Spawners : spc[s] = "idle") =>
        /\ Len(gq) = nfib
        /\ \A f \in Fibers : Occurrences(gq, f) = 1 /\ cstate[f] = cs_runnable

\* all the spawn calls have returned, and the queue's order differs from the
\* order of allocation: the calls overlapped
C10_OverlappingSpawnsReturned ==
    /\ nfib = MaxSpawns
    /\ \A s \in Spawners : spc[s] = "idle"
    /\ Len(gq) = MaxSpawns
    /\ gq[1] # 1

\* C11: the monitor never finds a Created fiber in the global queue while it
\* drains it, whatever the interleaving of runtime_schedule with the sweeps:
\* the "unreachable state" assertion of recycle_global_queue is never reached,
\* and no worker's local queue ever holds a Created fiber.
C11_MonitorNeverSeesCreated ==
    /\ crash # "unreachable state"
    /\ mpc \in {"drain", "popleft"} =>
           \A k \in 1 .. Len(gq) : cstate[gq[k]] # cs_created
    /\ \A w \in Workers :
           \A k \in 1 .. Len(lq[w]) : cstate[lq[w][k]] # cs_created

\* the monitor drains a non-empty global queue while a runtime_schedule call
\* holds a Created fiber and waits for the queue lock
C11_SweepDuringSpawn ==
    /\ mpc = "drain"
    /\ glock = MonitorId
    /\ gq # << >>
    /\ \E s \in Spawners : /\ spc[s] = "lock"
                           /\ cstate[sfib[s]] = cs_created

\* C12: for appends to an initially empty queue and poplefts, with no
\* reenqueue, the fibers are returned in the order they were appended, and
\* after every operation the size is the appends minus the poplefts.
C12_PopOrderIsAppendOrder ==
    (\A i \in 1 .. Len(hlog) : hlog[i].op # "reenqueue") =>
        LET apps == Given(hlog, "append")
            pops == Given(hlog, "popleft")
        IN  /\ Len(pops) <= Len(apps)
            /\ pops = SubSeq(apps, 1, Len(pops))
            /\ hq.size = Len(apps) - Len(pops)
            /\ Contents(hq) = SubSeq(apps, Len(pops) + 1, Len(apps))

\* three fibers were appended, not all the same, and then three popped
C12_ThreeAppendedThreePopped ==
    /\ Len(hlog) = 6
    /\ \A i \in 1 .. 3 : hlog[i].op = "append"
    /\ \A i \in 4 .. 6 : hlog[i].op = "popleft"
    /\ hlog[1].c # hlog[2].c
    /\ hq.size = 0

\* the queue x rotated by one: the head becomes the tail
Rotated(x) == IF Len(x) <= 1 THEN x ELSE Append(Tail(x), Head(x))

\* C13: reenqueue turns a queue [x1, x2, ..., xN] of size N >= 2 into
\* [x2, ..., xN, x1] and keeps the size; it changes nothing on a queue of size
\* 0 or 1; a popleft after a reenqueue returns the fiber that was second
\* before the reenqueue.
C13_ReenqueueRotates ==
    \A i \in 1 .. Len(hlog) :
        hlog[i].op = "reenqueue" =>
            LET before == hlog[i].before
                after == IF i < Len(hlog) THEN hlog[i + 1].before
                                          ELSE Contents(hq)
            IN  /\ after = Rotated(before)
                /\ Len(after) = Len(before)
                /\ i = Len(hlog) => hq.size = Len(before)
                /\ (i < Len(hlog) /\ hlog[i + 1].op = "popleft"
                        /\ Len(before) >= 2)
                       => hlog[i + 1].c = before[2]

\* a queue of four was rotated once and then popped
C13_FourRotatedThenPopped ==
    /\ Len(hlog) = 6
    /\ hlog[5].op = "reenqueue"
    /\ Len(hlog[5].before) = 4
    /\ hlog[5].before[1] # hlog[5].before[2]
    /\ hlog[6].op = "popleft"

\* C14: the monitor thread is the only thread that frees a fiber: every
\* step that frees one is a step of recycle_global_queue, made while the
\* monitor holds the global queue's lock.
C14_OnlyMonitorFrees ==
    [][freed' # freed => (mpc = "drain" /\ glock = MonitorId)]_vars

\* C14 as the code has it: a fiber is freed by the worker thread whose
\* scheduler_get_first_runnable found it Done at the head of its local queue
\* and popped it, under that worker's queue lock; a fiber in the global queue
\* has not run, so the Done arm of recycle_global_queue frees none.
C14_WorkerFreesDoneHead ==
    [][\A f \in freed' \ freed :
           /\ cstate[f] = cs_done
           /\ \E w \in Workers : /\ wpc[w] = "pick_free"
                                  /\ pcor[w] = f
                                  /\ llock[w] = "worker"
                                  /\ wpc'[w] = "pick_clr"]_vars

\* a worker thread has freed the Done fiber it popped from its local queue
C14_WorkerHasFreed ==
    \E w \in Workers : /\ wpc[w] = "pick_clr"
                       /\ pcor[w] \in freed
                       /\ mpc # "drain"

\* C15: a freed fiber is in no queue, is freed once, and is not used after
\* the free: no freed fiber is written or freed again, no queue holds one, and
\* no worker's current refers to one once scheduler_get_first_runnable has
\* cleared it in the statement that follows coroutine_free.
C15_FreedFiberUnreferenced ==
    /\ ~uaf
    /\ \A f \in freed :
           /\ NQueues(f) = 0
           /\ \A w \in Workers : current[w] = f => wpc[w] = "pick_clr"

\* C16: a worker's current is null if and only if the worker is Idle, or
\* Scheduling with no fiber picked; read in the claim's favour: a null current
\* is found only in a worker that is Idle or Scheduling, an Idle worker has a
\* null current, a Running worker a non-null one, and a worker blocked on
\* its idle semaphore a null one.
C16_CurrentNullIffIdleOrScheduling ==
    \A w \in Workers :
        /\ current[w] = NULL => tstate[w] \in {ts_idle, ts_scheduling}
        /\ tstate[w] = ts_idle => current[w] = NULL
        /\ tstate[w] = ts_running => current[w] # NULL
        /\ wpc[w] = "wait" => current[w] = NULL

\* C16 as the code has it: the state Created also goes with a null current
\* (thread_init, and loom_working_thread_main entered again from
\* thread_schedule); a Scheduling worker keeps the fiber it ran last as
\* current until scheduler_get_first_runnable replaces or clears it.
C16_CurrentNullInCreatedIdle ==
    \A w \in Workers :
        /\ current[w] = NULL =>
               tstate[w] \in {ts_created, ts_idle, ts_scheduling}
        /\ tstate[w] \in {ts_created, ts_idle} => current[w] = NULL
        /\ tstate[w] = ts_running => current[w] # NULL
        /\ wpc[w] = "wait" => current[w] = NULL

\* one worker runs a fiber while the other, whose queue already holds a
\* fiber, is still blocked on its idle semaphore
C16_OneRunsOneWaits ==
    /\ nw = 2
    /\ tstate[0] = ts_running
    /\ wpc[0] = "run"
    /\ current[0] # NULL
    /\ tstate[1] = ts_idle
    /\ wpc[1] = "wait"
    /\ sem[1] = 0
    /\ lq[1] # << >>

\* the worker state changes the specification's state machine allows
WorkerTransitions ==
    { << ts_created, ts_idle >>, << ts_idle, ts_scheduling >>,
      << ts_scheduling, ts_running >>, << ts_running, ts_scheduling >>,
      << ts_scheduling, ts_idle >> }
        \cup { << t, ts_dead >> : t \in ts_created .. ts_dead }

\* C17: a worker's state changes only along Created -> Idle, Idle ->
\* Scheduling, Scheduling -> Running, Running -> Scheduling, Scheduling ->
\* Idle and -> Dead: a worker that has left Created never becomes Created
\* again and never goes from Idle directly to Running.
C17_WorkerStateMachine ==
    [][\A w \in Workers :
           tstate'[w] # tstate[w] =>
               << tstate[w], tstate'[w] >> \in WorkerTransitions]_vars

\* C18: when the allocation of the fiber fails inside runtime_schedule, the
\* call returns a null handle (the process goes on, the caller is back
\* outside the call without a fiber) and the global queue, every local queue
\* and every fiber's state are as before.
C18_FailedSpawnReturnsNull ==
    [][\A s \in Spawners :
           SpawnAllocFail(s) =>
               /\ crash' = "none"
               /\ spc'[s] = "idle"
               /\ sfib'[s] = NULL
               /\ gq' = gq
               /\ lq' = lq
               /\ cstate' = cstate]_vars

\* worker w loads a saved context: loom_restore_context in thread_schedule,
\* in loom_working_thread_main, in sigurg_handler, or in the epilogue
RestoreStep(w) ==
    \/ Restore(w)
    \/ WorkerWake(w)
    \/ HandlerRequeue(w)
    \/ EpilogueRestore(w)

\* C19: a thread that restores a context holds no lock: at every restore in
\* the scheduler loop, the idle loop and the preemption handler the worker's
\* queue lock is not held by the worker, and the global queue's lock is held
\* by no worker.
C19_NoLockHeldAtRestore ==
    [][\A w \in Workers :
           RestoreStep(w) =>
               /\ llock[w] = "free"
               /\ llock'[w] = "free"
               /\ glock \in {0, MonitorId} \cup Spawners]_vars

\* a worker is about to resume a fiber that the preemption handler
\* suspended: the handler, the idle loop and the scheduler loop have all
\* restored a context
C19_ResumesPreemptedFiber ==
    \E w \in Workers :
        /\ wpc[w] = "restore"
        /\ current[w] # NULL
        /\ regs[current[w]].pc > FuncPc
        /\ llock[w] = "free"

\* C20: one pass of recycle_global_queue drains the global queue: when the
\* pass releases the lock (no spawn can append while it is held), the global
\* queue is empty.
C20_DrainPassEmptiesGlobalQueue ==
    [][(mpc = "drain" /\ mpc' = "size") => gq' = << >>]_vars

\* C21: dispatch is round-robin with one counter kept across drain passes
\* and monitor iterations.  Fibers are numbered from 1 in spawn order and no
\* fiber leaves a local queue here, so: the fibers moved so far are the first
\* ones spawned, fiber f (the (f - 1)-th moved, counting from 0) is in the
\* queue of worker (f - 1) mod W, each local queue is in spawn order, and the
\* numbers of fibers handed to two workers differ by at most one.
C21_RoundRobinDispatch ==
    /\ \A f \in Fibers : Dispatched(f) => \A g \in 1 .. f : Dispatched(g)
    /\ \A w \in Workers :
           /\ \A k \in 1 .. Len(lq[w]) : (lq[w][k] - 1) % nw = w
           /\ \A k \in 1 .. Len(lq[w]) - 1 : lq[w][k] < lq[w][k + 1]
    /\ \A v, w \in Workers :
           Len(lq[v]) - Len(lq[w]) \in -1 .. 1

\* all the fibers were moved, two to each of two workers, the last of them
\* in a later sweep than the first
C21_AllDispatchedOverSweeps ==
    /\ nw = 2
    /\ nfib = DispatchFibers
    /\ gq = << >>
    /\ Len(lq[0]) = 2
    /\ Len(lq[1]) = 2
    /\ mpc = "sleep"

\* C22: the preemption signal interrupts a fiber only after the fiber has
\* run for more than the slice budget since its most recent resumption: when
\* sigurg_handler is entered, the worker is Running and the slice that began
\* at the last time_quant_start = now_ns() is over budget.
C22_HandlerEntersOnlyOverBudget ==
    [][\A w \in Workers :
           Deliver(w) => (tstate[w] = ts_running /\ expired[w])]_vars

\* C23: scheduler_get_first_runnable picks in queue order: the fiber it
\* returns is the first cs_runnable fiber of the queue it was called on.
C23_PickIsFirstRunnable ==
    (PickReturned(0) /\ current[0] # NULL) =>
        (RunnableScanned # << >> /\ current[0] = Head(RunnableScanned))

\* C24: scheduler_get_first_runnable returns null only when the queue it was
\* called on holds no cs_runnable fiber.
C24_NullOnlyWithoutRunnable ==
    (PickReturned(0) /\ current[0] = NULL) => RunnableScanned = << >>

NotFreed(f) == f \notin freed

\* C25: removing a cs_done head leaves the remaining fibers in their order:
\* whenever the scan inspects the head, the queue is the queue it was called
\* on without the fibers freed so far, so the freed fiber's successor is the
\* head that is inspected next.
C25_RemovalKeepsOrder ==
    wpc[0] = "pick" => lq[0] = SelectSeq(ScannedQueue, NotFreed)

\* worker w, inside sigurg_handler, waits in thread_reenqueue_local for the
\* queue lock that thread_schedule took on the same thread before its scan
SelfDeadlocked(w) == wpc[w] = "h_requeue" /\ llock[w] = "worker"

\* the monitor, in a drain pass with the global lock held, waits in
\* thread_enqueue_local for the queue lock of a worker that waits for itself
DrainWedged ==
    /\ mpc = "drain"
    /\ glock = MonitorId
    /\ mj < Len(gq)
    /\ cstate[Head(gq)] = cs_runnable
    /\ SelfDeadlocked(NextThread)

\* C26: every scan terminates: no worker's scan of its local queue is stopped
\* for ever before scheduler_get_first_runnable returns, and no drain pass
\* of the monitor is stopped for ever before it releases the global lock.
C26_ScansTerminate ==
    /\ \A w \in Workers : ~SelfDeadlocked(w)
    /\ ~DrainWedged

\* the fiber sigurg_handler has just put back, seen by the thread_schedule
\* that follows the handler: current is still set and is cs_runnable
Preempted(w) == current[w] # NULL /\ cstate[current[w]] = cs_runnable

\* another cs_runnable fiber was in the queue when the handler put the
\* preempted one back: it stands before it (the monitor appends behind it)
OtherRunnable(w) ==
    \E j, k \in 1 .. Len(lq[w]) :
        /\ j < k
        /\ lq[w][k] = current[w]
        /\ lq[w][j] # current[w]
        /\ cstate[lq[w][j]] = cs_runnable

\* C27: when sigurg_handler finishes, the preempted fiber is cs_runnable and,
\* in a local queue of two or more fibers, it is the last one; the pick that
\* follows returns another fiber when another cs_runnable fiber is queued.
C27_PreemptedGoesLast ==
    [][\A w \in Workers :
           /\ HandlerRequeue(w) =>
                  /\ cstate'[current[w]] = cs_runnable
                  /\ Len(lq'[w]) >= 2 => lq'[w][Len(lq'[w])] = current[w]
           /\ (PickInspect(w) /\ Preempted(w) /\ OtherRunnable(w)
                   /\ PickReturned(w)') =>
                  (current'[w] # NULL /\ current'[w] # current[w])]_vars

\* a worker with two fibers has just left sigurg_handler: the preempted
\* fiber is cs_runnable at the back, the other fiber heads the queue
C27_PreemptedBehindOther ==
    /\ wpc[0] = "ts0" /\ tstate[0] = ts_scheduling
    /\ Len(lq[0]) = 2 /\ lq[0][2] = current[0] /\ lq[0][1] # current[0]
    /\ cstate[current[0]] = cs_runnable /\ cstate[lq[0][1]] = cs_runnable

\* C28: sigurg_handler is never entered on a worker thread while that thread
\* holds its own queue lock.
C28_HandlerNeverEntersUnderQueueLock ==
    [][\A w \in Workers : Deliver(w) => llock[w] # "worker"]_vars

\* C29: whenever sigurg_handler is entered on a worker, the worker is running
\* a fiber: its current pointer is non-null and points to a fiber that is
\* cs_running and has not been freed, and the thread is ts_running.
C29_HandlerFindsRunningCurrent ==
    [][\A w \in Workers :
           Deliver(w) =>
               /\ tstate[w] = ts_running
               /\ current[w] # NULL
               /\ current[w] \notin freed
               /\ cstate[current[w]] = cs_running]_vars

\* a step in which the worker's scan calls sigblock_free: the node freed by
\* coroutine_queue_popleft, or coroutine_free
ScanFrees(w) ==
    \/ PickInspect(w) /\ wpc'[w] = "pick_free"
    \/ PickFree(w)

\* C30: sigblock_malloc and sigblock_free keep the caller's signal mask:
\* after the call SIGURG is blocked exactly if it was blocked before it.
C30_AllocatorKeepsMask ==
    [][\A w \in Workers : ScanFrees(w) => blocked'[w] = blocked[w]]_vars

\* the fiber at the head of worker w's local queue, NULL for an empty queue
LocalHead(w) == IF lq[w] = << >> THEN NULL ELSE Head(lq[w])

\* C31: whenever a worker is ts_running the head of its local queue is its
\* current fiber, and the rotation in sigurg_handler moves the current fiber,
\* never another one, to the back.
C31_RunningHeadIsCurrent ==
    /\ [](\A w \in Workers :
              tstate[w] = ts_running =>
                  (current[w] # NULL /\ LocalHead(w) = current[w]))
    /\ [][\A w \in Workers :
               HandlerRequeue(w) =>
                   /\ LocalHead(w) = current[w]
                   /\ lq'[w] = Append(Tail(lq[w]), current[w])]_vars

\* a worker runs the first of two queued fibers while the monitor has
\* appended the second behind it
C31_RunsHeadOfTwo ==
    /\ tstate[0] = ts_running /\ wpc[0] = "run"
    /\ Len(lq[0]) = 2 /\ current[0] = lq[0][1]
    /\ cstate[current[0]] = cs_running

\* worker w is in a pthread_mutex_lock of its own queue lock: in
\* thread_local_queue_size (called by loom_working_thread_main and by
\* thread_schedule), in thread_schedule itself, or in thread_reenqueue_local
WorkerRequestsOwn(w) ==
    \/ wpc[w] \in {"ts0", "ts_lock", "h_requeue"}
    \/ wpc[w] = "wait" /\ sem[w] > 0

\* the monitor is in a pthread_mutex_lock of the global queue lock, or of a
\* worker's queue lock outside recycle_global_queue
MonitorRequestsOutsideDrain == mpc \in {"recycle", "size"}

\* C32: lock acquisition is acyclic: a thread that requests a queue lock
\* holds no queue lock, except the monitor, which requests a worker's queue
\* lock inside its drain pass while it holds the global one.
C32_LockOrderAcyclic ==
    /\ \A w \in Workers : WorkerRequestsOwn(w) => llock[w] # "worker"
    /\ \A s \in Spawners : spc[s] = "lock" => glock # s
    /\ MonitorRequestsOutsideDrain => glock # MonitorId

\* the nodes a traversal from node n visits along next before it meets the
\* null pointer, cut off after k nodes
RECURSIVE Chain(_, _, _)
Chain(Q, n, k) ==
    IF n = NULL \/ k = 0 THEN << >>
    ELSE << n >> \o Chain(Q, Q.next[n], k - 1)

\* C33: after any sequence of append, popleft and reenqueue the queue is
\* consistent: size is the number of nodes reachable from first, first is
\* null iff last is null iff size is 0, and last is the final node reachable
\* from first, with a null next.
C33_QueueRepresentationConsistent ==
    LET ch == Chain(hq, hq.first, QueueNodes + 1)
    IN  /\ Len(ch) = hq.size
        /\ (hq.first = NULL) <=> (hq.size = 0)
        /\ (hq.last = NULL) <=> (hq.size = 0)
        /\ hq.size > 0 =>
               /\ ch[Len(ch)] = hq.last
               /\ hq.next[hq.last] = NULL
        /\ \A i \in 1 .. Len(ch) : ch[i] \in hq.live

\* a queue that was emptied by popleft, refilled, and rotated holds three
\* nodes
C33_RefilledAndRotated ==
    /\ hq.size = 3
    /\ \E i, j, k \in 1 .. Len(hlog) :
           /\ i < j /\ j < k
           /\ hlog[i].op = "popleft" /\ Len(hlog[i].before) = 1
           /\ hlog[j].op = "append"
           /\ hlog[k].op = "reenqueue" /\ Len(hlog[k].before) >= 2

====
